---- MODULE Spec2Model ----
(***************************************************************************)
(* Boids simulation: the structure-of-arrays agent store (BoidSystem), its *)
(* spatial hash and flocking kernel (src/src/boid.py), and the locking of  *)
(* the simulation thread, the broadcaster and the socket handlers          *)
(* (src/src/server.py, src/src/app.py).                                    *)
(*                                                                         *)
(* Numbers: the code computes in float64.  Here every length, velocity and *)
(* dimensionless factor is an integer count of hundredths (1.5 is 150),    *)
(* products are rescaled by 100 and quotients truncate toward zero.        *)
(***************************************************************************)
EXTENDS Integers, Sequences, FiniteSets, TLC

\* ------------------------------------------------------------------ bounds

\* Length of the pre-allocated arrays (max_count = 5000 in __init__).
MaxCount == 2

\* Number of BoidSystem calls explored from the constructed system.
MaxSteps == 3

\* ------------------------------------------------- constants of boid.py

WORLD_WIDTH == 20000
WORLD_HEIGHT == 20000
GRID_X1 == 10000
GRID_Y1 == 10000
GRID_X2 == -10000
GRID_Y2 == -10000

\* ----------------------------------------------------------- arithmetic

Abs(a) == IF a < 0 THEN -a ELSE a
Min(a, b) == IF a < b THEN a ELSE b
Max(a, b) == IF a > b THEN a ELSE b

\* float division a / b followed by truncation toward zero (b # 0)
Quot(a, b) ==
    LET q == Abs(a) \div Abs(b)
    IN  IF (a < 0) = (b < 0) THEN q ELSE -q

\* a * b for two hundredths-scaled quantities
Mul(a, b) == Quot(a * b, 100)

\* int(np.ceil(a / b)) for a >= 0, b > 0
CeilDiv(a, b) == (a + b - 1) \div b

RECURSIVE SqrtSearch(_, _, _)
SqrtSearch(v, lo, hi) ==
    IF lo >= hi THEN lo
    ELSE LET mid == (lo + hi + 1) \div 2
         IN  IF mid * mid <= v THEN SqrtSearch(v, mid, hi)
             ELSE SqrtSearch(v, lo, mid - 1)

\* math.sqrt, rounded down to the representable grid
Sqrt(v) == SqrtSearch(v, 0, 46340)

RECURSIVE SumSeq(_)
SumSeq(s) == IF s = <<>> THEN 0 ELSE Head(s) + SumSeq(Tail(s))

\* ------------------------------------------------------------------ state

VARIABLES
    count, max_count,
    positions_x, positions_y, velocities_x, velocities_y, sizes,
    rebound,
    params,
    cell_size, num_cells_x, num_cells_y,
    last, steps,
    boid_system, lock, pc, paused, frame, sim_frame, boids, upd,
    phase, hash, new_vx, new_vy, neighbor_counts, sequential

storeVars == <<count, max_count, positions_x, positions_y,
               velocities_x, velocities_y, sizes, rebound>>
gridVars == <<cell_size, num_cells_x, num_cells_y>>
threadVars == <<boid_system, lock, pc, paused, frame, sim_frame, boids, upd>>
tickVars == <<phase, hash, new_vx, new_vy, neighbor_counts, sequential>>
vars == <<storeVars, params, gridVars, last, steps, threadVars, tickVars>>

\* The five arrays, in the order in which add_boids and reset write them.
BufferNames == <<"positions_x", "positions_y", "velocities_x",
                 "velocities_y", "sizes">>

\* The tunable parameters set in __init__.
ParamNames == {"max_velocity", "min_velocity", "range_of_view", "strength",
               "repulsion_factor", "random_factor", "slow_factor",
               "confusion_factor", "distance_factor", "default_size",
               "wrap_mode"}

\* Every data attribute of a BoidSystem: what hasattr(self, param) accepts.
AttrNames == ParamNames \cup {BufferNames[k] : k \in 1..5}
             \cup {"count", "max_count", "cell_size", "num_cells_x", "num_cells_y"}

Zeros(n) == [k \in 1..n |-> 0]

\* _update_grid_params, from a range_of_view rov
GridCellSize(rov) == Max(rov, 100)
GridNumCells(extent, cs) == Max(1, CeilDiv(extent, cs))

DefaultParams ==
    [max_velocity |-> 150, min_velocity |-> 50, range_of_view |-> 300,
     strength |-> 15, repulsion_factor |-> 3, random_factor |-> 25,
     slow_factor |-> 100, confusion_factor |-> 20, distance_factor |-> 5,
     default_size |-> 700, wrap_mode |-> 1]

\* The value a call hands back: {} is None, {v} the value v.
None == {}

Call(op, name, arg, ret, raised) ==
    [op |-> op, name |-> name, arg |-> arg, pre |-> count,
     pre_max |-> max_count, ret |-> ret, raised |-> raised]

\* The threads of the server: the simulation thread, a thread that calls
\* broadcast_boids, and one thread per socket event that takes the lock.
Handlers == {"update_param", "set_boid_count", "reset_simulation"}
Threads == {"sim", "broadcaster"} \cup Handlers

\* No update() call is in progress: its locals do not exist.
NoTick ==
    /\ phase = "Idle"
    /\ hash = <<>>
    /\ new_vx = <<>>
    /\ new_vy = <<>>
    /\ neighbor_counts = <<>>
    /\ sequential = <<>>

\* BoidSystem.__init__
InitSystem ==
    /\ NoTick
    /\ max_count = MaxCount
    /\ positions_x = Zeros(MaxCount)
    /\ positions_y = Zeros(MaxCount)
    /\ velocities_x = Zeros(MaxCount)
    /\ velocities_y = Zeros(MaxCount)
    /\ sizes = Zeros(MaxCount)
    /\ rebound = {}
    /\ count = 0
    /\ params = DefaultParams
    /\ cell_size = GridCellSize(DefaultParams.range_of_view)
    /\ num_cells_x = GridNumCells(WORLD_WIDTH, GridCellSize(DefaultParams.range_of_view))
    /\ num_cells_y = GridNumCells(WORLD_HEIGHT, GridCellSize(DefaultParams.range_of_view))
    /\ last = [op |-> "init", name |-> "", arg |-> 0, pre |-> 0,
               pre_max |-> MaxCount, ret |-> None, raised |-> FALSE]
    /\ steps = 0

\* app.py: simulation_state, and the locals of run_simulation before its loop
InitThreads(present) ==
    /\ boid_system = present
    /\ lock = "free"
    /\ pc = [t \in Threads |-> IF t = "sim" THEN "loop" ELSE "idle"]
    /\ paused = FALSE
    /\ frame = 0
    /\ sim_frame = 0
    /\ boids = Zeros(MaxCount)
    /\ upd = 0

\* A BoidSystem driven by direct calls, no thread running.
Init == InitSystem /\ InitThreads(TRUE)

\* ------------------------------------------------------------------ inputs

\* np.random.uniform(GRID_X2, GRID_X1), np.random.uniform(-0.1, 0.1): the
\* position and velocity one call of add_boids may draw for one agent.
AgentSamples ==
    { [x |-> -10000, y |-> 0, vx |-> 5, vy |-> 0],
      [x |-> 9700, y |-> 0, vx |-> -5, vy |-> 0],
      [x |-> 9990, y |-> -9990, vx |-> 9, vy |-> -10] }

\* np.random.random(): the pair of draws (x axis, y axis) for one agent
RandomSamples == { <<50, 50>>, <<98, 2>> }

\* n of add_boids / remove_boids, target_count of set_count
CountArgs == (-1)..(MaxCount + 1)

\* (param, value) of update_param
ParamInputs ==
    { <<"range_of_view", -300>>, <<"range_of_view", 3000>>,
      <<"random_factor", 300>>, <<"random_factor", 0>>,
      <<"wrap_mode", 0>>, <<"default_size", 100>>,
      <<"count", MaxCount + 1>>, <<"max_count", 1>>,
      <<"sizes", 0>>, <<"cell_size", 50>>, <<"no_such_param", 1>> }

\* ------------------------------------------------------------ agent store

\* The store as a value, for the methods that call one another.
Store ==
    [count |-> count, max_count |-> max_count,
     positions_x |-> positions_x, positions_y |-> positions_y,
     velocities_x |-> velocities_x, velocities_y |-> velocities_y,
     sizes |-> sizes, raised |-> FALSE]

\* Index in BufferNames of the first array attribute that is no array any
\* more (item assignment to it raises TypeError), 6 when all five are arrays.
FirstRebound(rb) ==
    IF \E k \in 1..5 : BufferNames[k] \in rb
    THEN CHOOSE k \in 1..5 : /\ BufferNames[k] \in rb
                             /\ \A m \in 1..(k - 1) : BufferNames[m] \notin rb
    ELSE 6

\* buf[start:end] = vals for a numpy array buf (0-based start, end)
SliceAssign(buf, start, end, vals) ==
    [j \in 1..Len(buf) |->
        IF j > start /\ j <= end
        THEN (IF Len(vals) = 1 THEN vals[1] ELSE vals[j - start])
        ELSE buf[j]]

\* length of buf[start:end]
SliceLen(buf, start, end) ==
    Max(0, Min(end, Len(buf)) - Min(start, Len(buf)))

\* BoidSystem.add_boids(n) on store st; draw[k] is the k-th agent's random
\* sample, ds is default_size, rb the rebound attributes.
add_boids(st, n, draw, ds, rb) ==
    LET space == st.max_count - st.count
        to_add == Min(n, space)
        start == st.count
        end == start + to_add
        shapeOK == \/ SliceLen(st.positions_x, start, end) = to_add
                   \/ to_add = 1
        fails == IF shapeOK THEN FirstRebound(rb) ELSE 1
        W(k, buf, vals) == IF k < fails THEN SliceAssign(buf, start, end, vals)
                           ELSE buf
    IN  IF to_add > 0
        THEN [st EXCEPT
                !.positions_x = W(1, @, [k \in 1..to_add |-> draw[k].x]),
                !.positions_y = W(2, @, [k \in 1..to_add |-> draw[k].y]),
                !.velocities_x = W(3, @, [k \in 1..to_add |-> draw[k].vx]),
                !.velocities_y = W(4, @, [k \in 1..to_add |-> draw[k].vy]),
                !.sizes = W(5, @, <<ds>>),
                !.count = IF fails = 6 THEN @ + to_add ELSE @,
                !.raised = (fails < 6)]
        ELSE st

\* BoidSystem.remove_boids(n)
remove_boids(st, n) == [st EXCEPT !.count = Max(0, @ - n)]

\* BoidSystem.set_count(target_count)
set_count(st, target_count, draw, ds, rb) ==
    LET target == Max(0, Min(target_count, st.max_count))
    IN  IF target > st.count
        THEN add_boids(st, target - st.count, draw, ds, rb)
        ELSE IF target < st.count
        THEN [st EXCEPT !.count = target]
        ELSE st

\* BoidSystem.reset()
reset(st, draw, ds, rb) ==
    LET current_count == st.count
        fails == FirstRebound(rb)
        Z(k, buf) == IF k < fails THEN Zeros(Len(buf)) ELSE buf
        cleared == [st EXCEPT
                      !.positions_x = Z(1, @),
                      !.positions_y = Z(2, @),
                      !.velocities_x = Z(3, @),
                      !.velocities_y = Z(4, @),
                      !.sizes = Z(5, @),
                      !.count = IF fails = 6 THEN 0 ELSE @,
                      !.raised = (fails < 6)]
    IN  IF fails = 6 /\ current_count > 0
        THEN add_boids(cleared, current_count, draw, ds, rb)
        ELSE cleared

\* The random draws a call that adds up to k agents may make.
Draws(k) == [1..Max(0, k) -> AgentSamples]

\* Number of agents add_boids(n) writes from a store with count c.
ToAdd(c, n) == Min(n, max_count - c)

StoreIs(st) ==
    /\ count' = st.count
    /\ max_count' = st.max_count
    /\ positions_x' = st.positions_x
    /\ positions_y' = st.positions_y
    /\ velocities_x' = st.velocities_x
    /\ velocities_y' = st.velocities_y
    /\ sizes' = st.sizes

\* One call made on the system directly.
Step == /\ steps < MaxSteps
        /\ steps' = steps + 1
        /\ UNCHANGED threadVars
        /\ UNCHANGED tickVars

AddBoids(n) ==
    /\ \E draw \in Draws(ToAdd(count, n)) :
          LET st == add_boids(Store, n, draw, params.default_size, rebound)
          IN  /\ StoreIs(st)
              /\ last' = Call("add_boids", "", n, None, st.raised)
    /\ UNCHANGED <<rebound, params, gridVars>>

RemoveBoids(n) ==
    /\ StoreIs(remove_boids(Store, n))
    /\ last' = Call("remove_boids", "", n, None, FALSE)
    /\ UNCHANGED <<rebound, params, gridVars>>

SetCount(target_count) ==
    /\ \E draw \in Draws(Max(0, Min(target_count, max_count)) - count) :
          LET st == set_count(Store, target_count, draw,
                              params.default_size, rebound)
          IN  /\ StoreIs(st)
              /\ last' = Call("set_count", "", target_count, None, st.raised)
    /\ UNCHANGED <<rebound, params, gridVars>>

Reset ==
    /\ \E draw \in Draws(Min(count, max_count)) :
          LET st == reset(Store, draw, params.default_size, rebound)
          IN  /\ StoreIs(st)
              /\ last' = Call("reset", "", 0, None, st.raised)
    /\ UNCHANGED <<rebound, params, gridVars>>

\* BoidSystem.update_param(param, value)
UpdateParam(param, value) ==
    /\ IF param \in AttrNames
       THEN /\ params' = IF param \in ParamNames
                         THEN [params EXCEPT ![param] = value] ELSE params
            /\ count' = IF param = "count" THEN value ELSE count
            /\ max_count' = IF param = "max_count" THEN value ELSE max_count
            /\ rebound' = IF \E k \in 1..5 : BufferNames[k] = param
                          THEN rebound \cup {param} ELSE rebound
            /\ cell_size' =
                  IF param = "cell_size" THEN value
                  ELSE IF param = "range_of_view" THEN GridCellSize(value)
                  ELSE cell_size
            /\ num_cells_x' =
                  IF param = "num_cells_x" THEN value
                  ELSE IF param = "range_of_view"
                  THEN GridNumCells(WORLD_WIDTH, GridCellSize(value))
                  ELSE num_cells_x
            /\ num_cells_y' =
                  IF param = "num_cells_y" THEN value
                  ELSE IF param = "range_of_view"
                  THEN GridNumCells(WORLD_HEIGHT, GridCellSize(value))
                  ELSE num_cells_y
            /\ sizes' =
                  IF param = "default_size" /\ "sizes" \notin rebound
                  THEN SliceAssign(sizes, 0, count, <<value>>)
                  ELSE sizes
            /\ last' = Call("update_param", param, value, None,
                            param = "default_size" /\ "sizes" \in rebound)
            /\ UNCHANGED <<positions_x, positions_y, velocities_x, velocities_y>>
       ELSE /\ last' = Call("update_param", param, value, None, FALSE)
            /\ UNCHANGED <<storeVars, params, gridVars>>

\* --------------------------------------------------------- spatial hash

\* len(self.positions_x[:self.count]): the agents one tick works on
ActiveLen == Min(count, Len(positions_x))
Active == 1..ActiveLen

\* wrapped_distance_sq without the abs() of the two differences
wrapped_distance_sq_signed(x1, y1, x2, y2, world_w, world_h) ==
    LET dx0 == x1 - x2
        dy0 == y1 - y2
        dx == IF 2 * dx0 > world_w THEN world_w - dx0 ELSE dx0
        dy == IF 2 * dy0 > world_h THEN world_h - dy0 ELSE dy0
    IN  dx * dx + dy * dy

\* wrapped_distance_sq
wrapped_distance_sq(x1, y1, x2, y2, world_w, world_h) ==
    LET dx0 == Abs(x1 - x2)
        dy0 == Abs(y1 - y2)
        dx == IF 2 * dx0 > world_w THEN world_w - dx0 ELSE dx0
        dy == IF 2 * dy0 > world_h THEN world_h - dy0 ELSE dy0
    IN  dx * dx + dy * dy

\* build_spatial_hash: cx, cy of a coordinate, int() of the quotient, clamped
CellCoord(p, grid_lo, num_cells) ==
    Max(0, Min(Quot(p - grid_lo, cell_size), num_cells - 1))

\* build_spatial_hash: boid_cells[i]
boid_cells(i) ==
    CellCoord(positions_y[i], GRID_Y2, num_cells_y) * num_cells_x
        + CellCoord(positions_x[i], GRID_X2, num_cells_x)

\* build_spatial_hash: cell_starts[c], the prefix sum of cell_counts, that
\* is the number of agents in the cells before c
cell_starts(c) == Cardinality({i \in Active : boid_cells(i) < c})

\* build_spatial_hash: the slot pos of sorted_indices agent i is written to,
\* cell_starts[cell] + cell_offsets[cell] at the time i is scattered
SortedPos(i) ==
    cell_starts(boid_cells(i))
        + Cardinality({k \in Active : k < i /\ boid_cells(k) = boid_cells(i)})

\* build_spatial_hash: sorted_indices[pos]
sorted_indices(pos) == CHOOSE i \in Active : SortedPos(i) = pos

\* sorted_indices[cell_starts[c] : cell_starts[c + 1]], in order
CellRun(c) ==
    [k \in 1..(cell_starts(c + 1) - cell_starts(c)) |->
        sorted_indices(cell_starts(c) + k - 1)]

\* build_spatial_hash: total_cells
total_cells == num_cells_x * num_cells_y

\* build_spatial_hash, "Count boids per cell": cell_counts after the
\* iterations i, i + 1, ... of the loop, from the array cell_counts
RECURSIVE CountLoop(_, _)
CountLoop(cell_counts, i) ==
    IF i > ActiveLen THEN cell_counts
    ELSE CountLoop([cell_counts EXCEPT ![boid_cells(i)] = @ + 1], i + 1)

\* build_spatial_hash, "Compute start indices": one iteration of the
\* prefix-sum loop, cell_starts[c + 1] = cell_starts[c] + cell_counts[c]
PrefixStep(cell_counts, starts, c) ==
    (c + 1 :> starts[c] + cell_counts[c]) @@ starts

\* cell_starts after the iterations 0 .. c - 1 of the prefix-sum loop
RECURSIVE PrefixLoop(_, _)
PrefixLoop(cell_counts, c) ==
    IF c = 0 THEN (0 :> 0)
    ELSE CHOOSE next \in {PrefixStep(cell_counts, starts, c - 1) :
                              starts \in {PrefixLoop(cell_counts, c - 1)}} : TRUE

\* the scatter step that never advances the running counter of the cell
ScatterStuck(sc, starts, i) ==
    LET cell_idx == boid_cells(i)
        pos == starts[cell_idx] + sc.cell_offsets[cell_idx]
    IN  [sorted_indices |-> (pos :> i) @@ sc.sorted_indices,
         cell_offsets |-> sc.cell_offsets]

\* build_spatial_hash, "Sort boid indices by cell": one iteration of the
\* scatter loop on the arrays sc.sorted_indices and sc.cell_offsets.  The
\* slots of sorted_indices = np.empty(n) that were never written are absent.
Scatter(sc, starts, i) ==
    LET cell_idx == boid_cells(i)
        pos == starts[cell_idx] + sc.cell_offsets[cell_idx]
    IN  [sorted_indices |-> (pos :> i) @@ sc.sorted_indices,
         cell_offsets |-> [sc.cell_offsets EXCEPT ![cell_idx] = @ + 1]]

RECURSIVE ScatterLoop(_, _, _)
ScatterLoop(sc, starts, i) ==
    IF i > ActiveLen THEN sc
    ELSE ScatterLoop(Scatter(sc, starts, i), starts, i + 1)

\* build_spatial_hash on the active slices: the three arrays it returns.
\* Cells and slots of sorted_indices are numbered from 0, agents from 1.
build_spatial_hash ==
    LET zeros == [c \in 0..(total_cells - 1) |-> 0]
        counts == CountLoop(zeros, 1)
        starts == PrefixLoop(counts, total_cells)
        sc == ScatterLoop([sorted_indices |-> <<>>, cell_offsets |-> zeros],
                          starts, 1)
    IN  [cell_starts |-> starts,
         sorted_indices |-> sc.sorted_indices,
         boid_cells |-> [i \in Active |-> boid_cells(i)]]

\* ------------------------------------------------------- flocking kernel

\* update_all_boids: the cells of the 3x3 block around i's cell, in the
\* order of the two loops over dcx and dcy
BlockCells(i) ==
    LET cell_x == boid_cells(i) % num_cells_x
        cell_y == boid_cells(i) \div num_cells_x
    IN  [b \in 1..9 |->
            LET dcx == ((b - 1) \div 3) - 1
                dcy == ((b - 1) % 3) - 1
            IN  ((cell_y + dcy) % num_cells_y) * num_cells_x
                    + ((cell_x + dcx) % num_cells_x)]

RECURSIVE ConcatRuns(_, _)
ConcatRuns(cells, b) ==
    IF b > Len(cells) THEN <<>>
    ELSE CellRun(cells[b]) \o ConcatRuns(cells, b + 1)

\* update_all_boids: the agents j the scan of i's block reaches, one entry
\* per time j is reached, without the entries skipped by i == j
Scanned(i) ==
    LET NotSelf(j) == j # i
    IN  SelectSeq(ConcatRuns(BlockCells(i), 1), NotSelf)

DistSq(i, j) ==
    wrapped_distance_sq(positions_x[i], positions_y[i],
                        positions_x[j], positions_y[j],
                        WORLD_WIDTH, WORLD_HEIGHT)

\* update_all_boids: the test dist_sq <= rov_sq
InView(i, j) == DistSq(i, j) <= params.range_of_view * params.range_of_view

\* update_all_boids: the scanned agents that pass the range test, one entry
\* per contribution to neighbor_count and to the sums
Neighbors(i) ==
    LET Seen(j) == InView(i, j)
    IN  SelectSeq(Scanned(i), Seen)

\* the wrapped offset d of the cohesion and separation terms
WrapDelta(d, extent) ==
    IF 2 * d > extent THEN d - extent
    ELSE IF 2 * d < -extent THEN d + extent
    ELSE d

\* math.sqrt rounded up: divisors that shrink a velocity round up, so that
\* rounding never lengthens the result
SqrtUp(v) == LET r == Sqrt(v) IN IF r * r = v THEN r ELSE r + 1

\* update_all_boids: the separation impulse of neighbour j on agent i
Separation(i, j) ==
    LET collision_dist == sizes[i] + sizes[j]
        dist_sq == DistSq(i, j)
        dist == SqrtUp(dist_sq)
        sep_dx == WrapDelta(positions_x[i] - positions_x[j], WORLD_WIDTH)
        sep_dy == WrapDelta(positions_y[i] - positions_y[j], WORLD_HEIGHT)
    IN  IF dist_sq < collision_dist * collision_dist /\ dist_sq > 0
        THEN <<Quot(sep_dx * params.repulsion_factor, dist),
               Quot(sep_dy * params.repulsion_factor, dist)>>
        ELSE <<0, 0>>

\* update_all_boids: the velocity after the neighbour rules
Flocked(i, nb) ==
    LET vx == velocities_x[i]
        vy == velocities_y[i]
        neighbor_count == Len(nb)
        confusion == Quot(100 * 100, 100 + neighbor_count * params.confusion_factor)
        avg_vx == Quot(SumSeq([k \in 1..neighbor_count |-> velocities_x[nb[k]]]),
                       neighbor_count)
        avg_vy == Quot(SumSeq([k \in 1..neighbor_count |-> velocities_y[nb[k]]]),
                       neighbor_count)
        alignment_strength == Mul(params.strength, confusion)
        vx1 == vx + Mul(avg_vx - vx, alignment_strength)
        vy1 == vy + Mul(avg_vy - vy, alignment_strength)
        avg_dx == Quot(SumSeq([k \in 1..neighbor_count |->
                          WrapDelta(positions_x[nb[k]] - positions_x[i], WORLD_WIDTH)]),
                       neighbor_count)
        avg_dy == Quot(SumSeq([k \in 1..neighbor_count |->
                          WrapDelta(positions_y[nb[k]] - positions_y[i], WORLD_HEIGHT)]),
                       neighbor_count)
        dist_sq == Quot(avg_dx * avg_dx + avg_dy * avg_dy, 100)
        distance_attenuation ==
            Quot(100 * 100, 100 + Mul(dist_sq, params.distance_factor))
        cohesion_strength ==
            Mul(Mul(Mul(params.strength, 50), distance_attenuation), confusion)
        sep_vx == SumSeq([k \in 1..neighbor_count |-> Separation(i, nb[k])[1]])
        sep_vy == SumSeq([k \in 1..neighbor_count |-> Separation(i, nb[k])[2]])
    IN  <<vx1 + Mul(avg_dx, cohesion_strength) + sep_vx,
          vy1 + Mul(avg_dy, cohesion_strength) + sep_vy>>

\* the isolated agent slowed by slow_factor with no floor at min_velocity
AloneNoFloor(i) ==
    LET vx == velocities_x[i]
        vy == velocities_y[i]
        vel_sq == vx * vx + vy * vy
        speed == SqrtUp(vel_sq)
        new_speed == speed - params.slow_factor
    IN  IF vel_sq > params.min_velocity * params.min_velocity
        THEN <<Quot(vx * new_speed, speed), Quot(vy * new_speed, speed)>>
        ELSE <<vx, vy>>

\* update_all_boids: the velocity of an agent that sees no neighbour
Alone(i) ==
    LET vx == velocities_x[i]
        vy == velocities_y[i]
        vel_sq == vx * vx + vy * vy
        speed == SqrtUp(vel_sq)
        new_speed == Max(speed - params.slow_factor, params.min_velocity)
    IN  IF vel_sq > params.min_velocity * params.min_velocity
        THEN <<Quot(vx * new_speed, speed), Quot(vy * new_speed, speed)>>
        ELSE <<vx, vy>>

\* update_all_boids: "Limit velocity"
LimitVelocity(v) ==
    LET vx == v[1]
        vy == v[2]
        vel_sq == vx * vx + vy * vy
        max_vel_sq == params.max_velocity * params.max_velocity
        floor_vel == Mul(params.min_velocity, 80)
        min_vel_sq == floor_vel * floor_vel
    IN  IF vel_sq > max_vel_sq
        THEN <<Quot(vx * params.max_velocity, SqrtUp(vel_sq)),
               Quot(vy * params.max_velocity, SqrtUp(vel_sq))>>
        ELSE IF vel_sq < min_vel_sq /\ vel_sq > 0
        THEN <<Quot(vx * floor_vel, Sqrt(vel_sq)),
               Quot(vy * floor_vel, Sqrt(vel_sq))>>
        ELSE v

\* update_all_boids: new_vx[i], new_vy[i]
NewVelocity(i) ==
    LET nb == Neighbors(i)
    IN  LimitVelocity(IF Len(nb) > 0 THEN Flocked(i, nb) ELSE Alone(i))

\* update_all_boids: the arrays new_vx, new_vy from agent k on, as pairs
RECURSIVE NewVelocities(_)
NewVelocities(k) ==
    IF k > ActiveLen THEN <<>>
    ELSE <<NewVelocity(k)>> \o NewVelocities(k + 1)

\* ------------------------------------------------------ boundary policy

\* (np.random.random() - 0.5) * random_factor, for a draw r
Perturbation(r) == Mul(r - 50, params.random_factor)

\* move_and_wrap, one axis: <<position, velocity>>
move_and_wrap(p, v, hi, lo) ==
    LET q == p + v
    IN  IF q > hi THEN <<lo, v>>
        ELSE IF q < lo THEN <<hi, v>>
        ELSE <<q, v>>

\* move_and_bounce that clamps the position and keeps the velocity
move_and_bounce_no_turn(p, v, hi, lo) ==
    LET q == p + v
    IN  IF q > hi THEN <<hi, v>>
        ELSE IF q < lo THEN <<lo, v>>
        ELSE <<q, v>>

\* move_and_bounce, one axis: <<position, velocity>>
move_and_bounce(p, v, hi, lo) ==
    LET q == p + v
    IN  IF q > hi THEN <<hi, -v>>
        ELSE IF q < lo THEN <<lo, -v>>
        ELSE <<q, v>>

\* BoidSystem.update: "Move and wrap/bounce", one axis of one agent
Move(p, v, hi, lo) ==
    IF params.wrap_mode # 0 THEN move_and_wrap(p, v, hi, lo)
    ELSE move_and_bounce(p, v, hi, lo)

\* arr with its first ActiveLen entries replaced by f
Patch(arr, f(_)) ==
    [k \in 1..Len(arr) |-> IF k \in Active THEN f(k) ELSE arr[k]]

\* BoidSystem.update(): one tick
Update ==
    /\ IF count = 0
       THEN /\ last' = Call("update", "", 0, None, FALSE)
            /\ UNCHANGED <<storeVars, params, gridVars>>
       ELSE IF rebound # {}
       THEN \* slicing an attribute that is no array raises TypeError
            /\ last' = Call("update", "", 0, None, TRUE)
            /\ UNCHANGED <<storeVars, params, gridVars>>
       ELSE \E new_v \in {NewVelocities(1)} :
            LET KX(k) == new_v[k][1]
                KY(k) == new_v[k][2]
            IN  IF count > Len(positions_x)
                THEN \* np.random.random(n) does not broadcast to the shorter
                     \* slice: the new velocities are stored, then ValueError
                     /\ velocities_x' = Patch(velocities_x, KX)
                     /\ velocities_y' = Patch(velocities_y, KY)
                     /\ last' = Call("update", "", 0, None, TRUE)
                     /\ UNCHANGED <<count, max_count, positions_x, positions_y,
                                    sizes, rebound, params, gridVars>>
                ELSE \E rnd \in [Active -> RandomSamples] :
                     \E moved \in {[k \in Active |->
                             <<Move(positions_x[k], KX(k) + Perturbation(rnd[k][1]),
                                    GRID_X1, GRID_X2),
                               Move(positions_y[k], KY(k) + Perturbation(rnd[k][2]),
                                    GRID_Y1, GRID_Y2)>>]} :
                     LET PX(k) == moved[k][1][1]
                         PY(k) == moved[k][2][1]
                         VX(k) == moved[k][1][2]
                         VY(k) == moved[k][2][2]
                     IN  /\ positions_x' = Patch(positions_x, PX)
                         /\ positions_y' = Patch(positions_y, PY)
                         /\ velocities_x' = Patch(velocities_x, VX)
                         /\ velocities_y' = Patch(velocities_y, VY)
                         /\ last' = Call("update", "", 0, None, FALSE)
                         /\ UNCHANGED <<count, max_count, sizes, rebound,
                                        params, gridVars>>

Next ==
    \/ \E n \in CountArgs : Step /\ AddBoids(n)
    \/ \E n \in CountArgs : Step /\ RemoveBoids(n)
    \/ \E t \in CountArgs : Step /\ SetCount(t)
    \/ Step /\ Reset
    \/ Step /\ Update
    \/ \E pv \in ParamInputs : Step /\ UpdateParam(pv[1], pv[2])

Spec == Init /\ [][Next]_vars

\* ------------------------------------------------- one tick, step by step

\* An agent a tick may find in the store: a position inside the world and a
\* velocity left by earlier ticks.  The speeds above min_velocity are whole
\* hundredths (100, 200, 100, 130) for which the hundredths arithmetic of the
\* kernel is exact; one agent moves at min_velocity and one, on the upper x
\* bound where wrap and bounce put agents, below it.
TickAgents ==
    { [x |-> -10000, y |-> 0, vx |-> 60, vy |-> 80],
      [x |-> 9800, y |-> 0, vx |-> -120, vy |-> 160],
      [x |-> 0, y |-> 0, vx |-> 100, vy |-> 0],
      [x |-> 100, y |-> 100, vx |-> 0, vy |-> -130],
      [x |-> -10000, y |-> -10000, vx |-> -30, vy |-> -40],
      [x |-> 10000, y |-> 100, vx |-> 9, vy |-> -10] }

\* The parameter sets a tick may run with, each reached from the defaults by
\* update_param: grids of 7 x 7, 2 x 2 and 1 x 1 cells.
TickParams ==
    { [DefaultParams EXCEPT !.range_of_view = 3000],
      [DefaultParams EXCEPT !.range_of_view = 10000, !.slow_factor = 10],
      [DefaultParams EXCEPT !.range_of_view = 20000],
      [DefaultParams EXCEPT !.range_of_view = 3000, !.slow_factor = 10,
                            !.max_velocity = 80],
      [DefaultParams EXCEPT !.range_of_view = 3000, !.max_velocity = 40],
      [DefaultParams EXCEPT !.range_of_view = 3000, !.min_velocity = 0] }

\* A BoidSystem between two ticks, holding n agents.
InitTick ==
    /\ \E p \in TickParams : \E n \in 0..MaxCount :
       \E draw \in [1..n -> TickAgents] :
          LET Slot(F(_)) == [k \in 1..MaxCount |-> IF k <= n THEN F(k) ELSE 0]
              X(k) == draw[k].x
              Y(k) == draw[k].y
              VX(k) == draw[k].vx
              VY(k) == draw[k].vy
              S(k) == p.default_size
          IN  /\ count = n
              /\ positions_x = Slot(X)
              /\ positions_y = Slot(Y)
              /\ velocities_x = Slot(VX)
              /\ velocities_y = Slot(VY)
              /\ sizes = Slot(S)
              /\ params = p
              /\ cell_size = GridCellSize(p.range_of_view)
              /\ num_cells_x = GridNumCells(WORLD_WIDTH, GridCellSize(p.range_of_view))
              /\ num_cells_y = GridNumCells(WORLD_HEIGHT, GridCellSize(p.range_of_view))
    /\ max_count = MaxCount
    /\ rebound = {}
    /\ last = [op |-> "init", name |-> "", arg |-> 0, pre |-> 0,
               pre_max |-> MaxCount, ret |-> None, raised |-> FALSE]
    /\ steps = 0
    /\ NoTick
    /\ InitThreads(TRUE)

\* what a step of update() leaves alone besides the arrays it names
tickQuiet == UNCHANGED <<count, max_count, sizes, rebound, params, gridVars,
                         threadVars>>

\* update(): the early return for an empty store, or the slices and the call
\* of build_spatial_hash.  sequential records the velocities a pass over the
\* agents in index order computes from the state at this point.
BuildHash ==
    /\ phase = "Idle"
    /\ steps = 0
    /\ IF count = 0
       THEN /\ steps' = steps + 1
            /\ last' = Call("update", "", 0, None, FALSE)
            /\ UNCHANGED tickVars
       ELSE /\ phase' = "GridBuilt"
            /\ hash' = build_spatial_hash
            /\ sequential' = NewVelocities(1)
            /\ UNCHANGED <<steps, last, new_vx, new_vy, neighbor_counts>>
    /\ UNCHANGED <<positions_x, positions_y, velocities_x, velocities_y>>
    /\ tickQuiet

\* the kernel writing its result over the velocity it was computed from
KernelWriteInPlace(i, v) ==
    /\ new_vx' = (i :> v[1]) @@ new_vx
    /\ new_vy' = (i :> v[2]) @@ new_vy
    /\ velocities_x' = [velocities_x EXCEPT ![i] = v[1]]
    /\ velocities_y' = [velocities_y EXCEPT ![i] = v[2]]

\* update_all_boids: new_vx[i] = vx, new_vy[i] = vy, into the arrays
\* allocated for the output
KernelWrite(i, v) ==
    /\ new_vx' = (i :> v[1]) @@ new_vx
    /\ new_vy' = (i :> v[2]) @@ new_vy
    /\ UNCHANGED <<velocities_x, velocities_y>>

\* update_all_boids: iteration i of the prange loop; the iterations run in
\* any order
KernelIteration(i) ==
    /\ phase = "GridBuilt"
    /\ i \in Active \ DOMAIN new_vx
    /\ \E v \in {NewVelocity(i)} : KernelWrite(i, v)
    /\ neighbor_counts' = (i :> Len(Neighbors(i))) @@ neighbor_counts
    /\ UNCHANGED <<phase, hash, sequential, positions_x, positions_y, steps, last>>
    /\ tickQuiet

\* update(): "Apply new velocities", once update_all_boids has returned
ApplyVelocities ==
    /\ phase = "GridBuilt"
    /\ DOMAIN new_vx = Active
    /\ LET NX(k) == new_vx[k]
           NY(k) == new_vy[k]
       IN  /\ velocities_x' = Patch(velocities_x, NX)
           /\ velocities_y' = Patch(velocities_y, NY)
    /\ phase' = "VelocitiesComputed"
    /\ UNCHANGED <<hash, new_vx, new_vy, neighbor_counts, sequential,
                   positions_x, positions_y, steps, last>>
    /\ tickQuiet

\* update(): "Add randomness"
AddRandomness ==
    /\ phase = "VelocitiesComputed"
    /\ \E rnd \in [Active -> RandomSamples] :
          LET RX(k) == velocities_x[k] + Perturbation(rnd[k][1])
              RY(k) == velocities_y[k] + Perturbation(rnd[k][2])
          IN  /\ velocities_x' = Patch(velocities_x, RX)
              /\ velocities_y' = Patch(velocities_y, RY)
    /\ phase' = "Perturbed"
    /\ UNCHANGED <<hash, new_vx, new_vy, neighbor_counts, sequential,
                   positions_x, positions_y, steps, last>>
    /\ tickQuiet

\* update(): "Move and wrap/bounce"
MoveAgents ==
    /\ phase = "Perturbed"
    /\ LET MX(k) == Move(positions_x[k], velocities_x[k], GRID_X1, GRID_X2)
           MY(k) == Move(positions_y[k], velocities_y[k], GRID_Y1, GRID_Y2)
           PX(k) == MX(k)[1]
           PY(k) == MY(k)[1]
           VX(k) == MX(k)[2]
           VY(k) == MY(k)[2]
       IN  /\ positions_x' = Patch(positions_x, PX)
           /\ positions_y' = Patch(positions_y, PY)
           /\ velocities_x' = Patch(velocities_x, VX)
           /\ velocities_y' = Patch(velocities_y, VY)
    /\ phase' = "Integrated"
    /\ UNCHANGED <<hash, new_vx, new_vy, neighbor_counts, sequential, steps, last>>
    /\ tickQuiet

\* update() returns: its locals are gone
TickReturn ==
    /\ phase = "Integrated"
    /\ phase' = "Idle"
    /\ hash' = <<>>
    /\ new_vx' = <<>>
    /\ new_vy' = <<>>
    /\ neighbor_counts' = <<>>
    /\ sequential' = <<>>
    /\ steps' = steps + 1
    /\ last' = Call("update", "", 0, None, FALSE)
    /\ UNCHANGED <<positions_x, positions_y, velocities_x, velocities_y>>
    /\ tickQuiet

NextTick ==
    \/ BuildHash
    \/ \E i \in 1..MaxCount : KernelIteration(i)
    \/ ApplyVelocities
    \/ AddRandomness
    \/ MoveAgents
    \/ TickReturn

\* One call of update() on a BoidSystem between two ticks, step by step.
SpecTick == InitTick /\ [][NextTick]_vars

\* ---------------------------------------------------------------- threads

\* (param, value) and count of the socket events explored
EventParams == { <<"random_factor", 0>>, <<"wrap_mode", 0>> }
EventCounts == {0, 1}

\* with simulation_state['lock']: thread t enters when no thread holds it
Acquire(t) == lock = "free" /\ lock' = t

\* leaving the with block
Release(t) == lock' = "free"

Goto(t, label) == pc' = [pc EXCEPT ![t] = label]

quiet == UNCHANGED <<storeVars, params, gridVars, last, steps, tickVars>>

\* run_simulation: while True / if not simulation_state['paused']
SimLoop ==
    /\ pc["sim"] = "loop"
    /\ frame < MaxSteps
    /\ Goto("sim", IF paused THEN "sleep" ELSE "acquire")
    /\ quiet
    /\ UNCHANGED <<boid_system, lock, paused, frame, sim_frame, boids, upd>>

\* run_simulation: with simulation_state['lock']
SimAcquire ==
    /\ pc["sim"] = "acquire"
    /\ Acquire("sim")
    /\ Goto("sim", "grid")
    /\ quiet
    /\ UNCHANGED <<boid_system, paused, frame, sim_frame, boids, upd>>

\* run_simulation: the loop that fills grid
SimGrid ==
    /\ pc["sim"] = "grid"
    /\ upd' = 1
    /\ Goto("sim", "update")
    /\ quiet
    /\ UNCHANGED <<boid_system, lock, paused, frame, sim_frame, boids>>

\* run_simulation: for boid in boids: boid.update(boids, grid), one boid
SimUpdate ==
    /\ pc["sim"] = "update"
    /\ IF upd <= Len(boids)
       THEN /\ boids' = [boids EXCEPT ![upd] = @ + 1]
            /\ upd' = upd + 1
            /\ UNCHANGED pc
       ELSE /\ Goto("sim", "set_frame")
            /\ UNCHANGED <<boids, upd>>
    /\ quiet
    /\ UNCHANGED <<boid_system, lock, paused, frame, sim_frame>>

\* run_simulation: simulation_state['frame'] = frame
SimSetFrame ==
    /\ pc["sim"] = "set_frame"
    /\ sim_frame' = frame
    /\ Goto("sim", "release")
    /\ quiet
    /\ UNCHANGED <<boid_system, lock, paused, frame, boids, upd>>

\* run_simulation: the end of the with block, then the call of broadcast_boids
SimRelease ==
    /\ pc["sim"] = "release"
    /\ Release("sim")
    /\ Goto("sim", "b_acquire")
    /\ quiet
    /\ UNCHANGED <<boid_system, paused, frame, sim_frame, boids, upd>>

\* run_simulation: frame += 1
SimNextFrame ==
    /\ pc["sim"] = "inc"
    /\ frame' = frame + 1
    /\ Goto("sim", "sleep")
    /\ quiet
    /\ UNCHANGED <<boid_system, lock, paused, sim_frame, boids, upd>>

\* run_simulation: time.sleep(0.01)
SimSleep ==
    /\ pc["sim"] = "sleep"
    /\ Goto("sim", "loop")
    /\ quiet
    /\ UNCHANGED <<boid_system, lock, paused, frame, sim_frame, boids, upd>>

\* a thread other than the simulation thread calls broadcast_boids
BroadcastCall ==
    /\ pc["broadcaster"] = "idle"
    /\ Goto("broadcaster", "b_acquire")
    /\ quiet
    /\ UNCHANGED <<boid_system, lock, paused, frame, sim_frame, boids, upd>>

\* broadcast_boids: with simulation_state['lock']
BroadcastAcquire(t) ==
    /\ pc[t] = "b_acquire"
    /\ Acquire(t)
    /\ Goto(t, "b_read")
    /\ quiet
    /\ UNCHANGED <<boid_system, paused, frame, sim_frame, boids, upd>>

\* broadcast_boids: the early return, or the copy of the arrays and the emit
BroadcastRead(t) ==
    /\ pc[t] = "b_read"
    /\ Goto(t, "b_release")
    /\ quiet
    /\ UNCHANGED <<boid_system, lock, paused, frame, sim_frame, boids, upd>>

\* broadcast_boids: the end of the with block and the return
BroadcastRelease(t) ==
    /\ pc[t] = "b_release"
    /\ Release(t)
    /\ Goto(t, IF t = "sim" THEN "inc" ELSE "idle")
    /\ quiet
    /\ UNCHANGED <<boid_system, paused, frame, sim_frame, boids, upd>>

\* handle_pause
HandlePause ==
    /\ paused' = ~paused
    /\ quiet
    /\ UNCHANGED <<boid_system, lock, pc, frame, sim_frame, boids, upd>>

\* a socket event arrives: the handler reads its data
HandlerStart(h) ==
    /\ pc[h] = "idle"
    /\ steps < MaxSteps
    /\ steps' = steps + 1
    /\ Goto(h, "wait")
    /\ UNCHANGED <<storeVars, params, gridVars, last, tickVars>>
    /\ UNCHANGED <<boid_system, lock, paused, frame, sim_frame, boids, upd>>

\* the handler without its with statement
HandlerEntersUnlocked(h) == UNCHANGED lock

\* handle_update_param, handle_set_boid_count, handle_reset_simulation:
\* with simulation_state['lock']
HandlerEnters(h) == Acquire(h)

HandlerLock(h) ==
    /\ pc[h] = "wait"
    /\ HandlerEnters(h)
    /\ Goto(h, "locked")
    /\ quiet
    /\ UNCHANGED <<boid_system, paused, frame, sim_frame, boids, upd>>

\* the body of the with block of handler h
HandlerBody(h) ==
    /\ pc[h] = "locked"
    /\ Goto(h, "release")
    /\ IF boid_system
       THEN \/ /\ h = "update_param"
               /\ \E pv \in EventParams : UpdateParam(pv[1], pv[2])
               /\ UNCHANGED sim_frame
            \/ /\ h = "set_boid_count"
               /\ \E t \in EventCounts : SetCount(t)
               /\ UNCHANGED sim_frame
            \/ /\ h = "reset_simulation"
               /\ sim_frame' = 0
               /\ Reset
       ELSE UNCHANGED <<storeVars, params, gridVars, last, sim_frame>>
    /\ UNCHANGED <<steps, boid_system, lock, paused, frame, boids, upd, tickVars>>

\* the end of the with block of handler h
HandlerRelease(h) ==
    /\ pc[h] = "release"
    /\ lock' = IF lock = h THEN "free" ELSE lock
    /\ Goto(h, "idle")
    /\ quiet
    /\ UNCHANGED <<boid_system, paused, frame, sim_frame, boids, upd>>

NextThreads ==
    \/ SimLoop
    \/ SimAcquire
    \/ SimGrid
    \/ SimUpdate
    \/ SimSetFrame
    \/ SimRelease
    \/ SimNextFrame
    \/ SimSleep
    \/ BroadcastCall
    \/ \E t \in {"sim", "broadcaster"} : BroadcastAcquire(t)
    \/ \E t \in {"sim", "broadcaster"} : BroadcastRead(t)
    \/ \E t \in {"sim", "broadcaster"} : BroadcastRelease(t)
    \/ HandlePause
    \/ \E h \in Handlers : HandlerStart(h)
    \/ \E h \in Handlers : HandlerLock(h)
    \/ \E h \in Handlers : HandlerBody(h)
    \/ \E h \in Handlers : HandlerRelease(h)

\* The server: the simulation thread, the broadcaster and the handlers.
\* app.py creates simulation_state with 'boid_system': None and leaves it to
\* its launcher to store the BoidSystem: the server is explored with and
\* without one.
InitServer == InitSystem /\ \E present \in BOOLEAN : InitThreads(present)

SpecServer == InitServer /\ [][NextThreads]_vars

\* ------------------------------------------------------------ properties

Buffers == <<positions_x, positions_y, velocities_x, velocities_y, sizes>>

\* C1: in every reachable state 0 <= count <= max_count and each of the five
\* backing attributes is still an array of length max_count.
C1_CountAndArraysWithinCapacity ==
    /\ 0 <= count
    /\ count <= max_count
    /\ \A k \in 1..5 : /\ BufferNames[k] \notin rebound
                       /\ Len(Buffers[k]) = max_count

\* C2: after add_boids(n) with n >= 0 from active count c the call has not
\* failed and the active count is c + min(n, capacity - c).
C2_AddRaisesCountByClampedN ==
    (last.op = "add_boids" /\ last.arg >= 0) =>
        /\ ~last.raised
        /\ count = last.pre + Min(last.arg, last.pre_max - last.pre)

\* C3: add_boids(n) with n >= 0 returns the number of agents it added,
\* min(n, capacity - count before the call).
C3_AddReturnsNumberAdded ==
    (last.op = "add_boids" /\ last.arg >= 0) =>
        last.ret = {Min(last.arg, last.pre_max - last.pre)}

\* C4: after set_count(target) the active count is max(0, min(target, capacity)).
C4_SetCountReachesClampedTarget ==
    last.op = "set_count" => count = Max(0, Min(last.arg, max_count))

\* C5: after reset() from a count c in [0, capacity] the count is c again,
\* every slot at index >= c is zero in all five arrays and every slot below c
\* has size default_size.
C5_ResetPreservesCount ==
    (last.op = "reset" /\ last.pre >= 0 /\ last.pre <= last.pre_max) =>
        /\ count = last.pre
        /\ \A b \in 1..5 : \A k \in 1..Len(Buffers[b]) :
              k > last.pre => Buffers[b][k] = 0
        /\ \A k \in 1..Len(sizes) :
              k <= last.pre => sizes[k] = params.default_size

\* The agents within range_of_view of agent i by wrapped distance, found by
\* comparing i with every other active agent.
BruteForceNeighbors(i) == {j \in Active \ {i} : InView(i, j)}

\* The agents the kernel's 3x3 scan treats as visible to i.
ScanNeighbors(i) == {Neighbors(i)[k] : k \in 1..Len(Neighbors(i))}

\* C6: for every active agent the set of agents the 3x3 scan of the hashed
\* cells finds within range_of_view equals the brute-force set.
C6_ScanEqualsBruteForce ==
    rebound = {} => \A i \in Active : ScanNeighbors(i) = BruteForceNeighbors(i)

\* The simulation thread is between the start and the end of a tick.
InTick == pc["sim"] \in {"grid", "update", "set_frame", "release"}

\* Every Boid has been updated the same number of times.
TickBoundary == \A i, j \in 1..Len(boids) : boids[i] = boids[j]

\* C7: while a tick is in progress no other thread is inside its critical
\* section, no step changes store, parameters or grid, and whenever a thread
\* reads the state to broadcast it no tick is partially applied.
C7_TickIsOneCriticalSection ==
    [][/\ InTick' => \A t \in Threads \ {"sim"} : pc'[t] \notin {"b_read", "locked"}
       /\ InTick => UNCHANGED <<storeVars, params, gridVars>>
       /\ (\E t \in Threads : pc'[t] = "b_read") => (~InTick' /\ TickBoundary')]_vars

\* Witness of C7: a tick has updated some Boids and not others while the
\* broadcaster and a handler whose event changes the store wait for the lock,
\* after an earlier event has changed the BoidSystem.
C7_Witness ==
    /\ pc["sim"] = "update" /\ ~TickBoundary
    /\ pc["broadcaster"] = "b_acquire"
    /\ \E h \in Handlers : pc[h] = "wait"
    /\ boid_system /\ last.op # "init"

\* A (name, value) pair set_parameter accepts: a tunable parameter with a
\* value in range (no negative number).
Accepted(name, value) == name \in ParamNames /\ value >= 0

\* C8: an update_param call with an unrecognized name or an out-of-range
\* value leaves store, parameters and grid unchanged and reports the
\* rejection to its caller.
C8_InvalidParamRejected ==
    [][(last'.op = "update_param" /\ steps' = steps + 1
            /\ ~Accepted(last'.name, last'.arg))
        => /\ UNCHANGED <<storeVars, params, gridVars>>
           /\ (last'.ret # None \/ last'.raised)]_vars

SpeedSq(i) == velocities_x[i] * velocities_x[i] + velocities_y[i] * velocities_y[i]

\* C9: after a complete tick, with random_factor >= 0, every active agent's
\* speed is at most max_velocity.
C9_SpeedAtMostMaxAfterTick ==
    (last.op = "update" /\ ~last.raised /\ params.random_factor >= 0) =>
        \A i \in Active : SpeedSq(i) <= params.max_velocity * params.max_velocity

\* The boundary policy on one axis, as a relation between the position p
\* before the tick, the position q and velocity w after it: some velocity v
\* was integrated and the mode's rule applied.
WrapRule(p, q, w, hi, lo) ==
    \/ p + w > hi /\ q = lo
    \/ p + w < lo /\ q = hi
    \/ p + w >= lo /\ p + w <= hi /\ q = p + w

BounceRule(p, q, w, hi, lo) ==
    \/ p - w > hi /\ q = hi
    \/ p - w < lo /\ q = lo
    \/ p + w >= lo /\ p + w <= hi /\ q = p + w

\* C10: a completed tick moves every active agent by its velocity and applies
\* the boundary rule of the mode on each axis separately (wrap: past a bound
\* to the opposite bound, velocity kept; bounce: clamped to the bound,
\* velocity negated), and leaves every position within the world bounds.
C10_BoundaryPolicy ==
    [][(last'.op = "update" /\ steps' = steps + 1 /\ ~last'.raised) =>
        \A i \in Active :
           /\ IF params.wrap_mode # 0
              THEN /\ WrapRule(positions_x[i], positions_x'[i], velocities_x'[i],
                               GRID_X1, GRID_X2)
                   /\ WrapRule(positions_y[i], positions_y'[i], velocities_y'[i],
                               GRID_Y1, GRID_Y2)
              ELSE /\ BounceRule(positions_x[i], positions_x'[i], velocities_x'[i],
                                 GRID_X1, GRID_X2)
                   /\ BounceRule(positions_y[i], positions_y'[i], velocities_y'[i],
                                 GRID_Y1, GRID_Y2)
           /\ positions_x'[i] >= GRID_X2 /\ positions_x'[i] <= GRID_X1
           /\ positions_y'[i] >= GRID_Y2 /\ positions_y'[i] <= GRID_Y1]_vars

\* Witness of C10: a tick in bounce mode has clamped an agent to the upper x
\* bound and to the lower y bound and turned both velocity components.
C10_Witness ==
    /\ last.op = "update" /\ ~last.raised /\ params.wrap_mode = 0
    /\ \E i \in Active : /\ positions_x[i] = GRID_X1 /\ velocities_x[i] < 0
                         /\ positions_y[i] = GRID_Y2 /\ velocities_y[i] > 0

\* A tick in wrap mode has carried an agent from the upper x bound to the
\* lower one and from the lower y bound to the upper one.
WrappedBothAxes ==
    /\ last.op = "update" /\ ~last.raised /\ params.wrap_mode # 0
    /\ \E i \in Active : /\ positions_x[i] = GRID_X2 /\ velocities_x[i] > 0
                         /\ positions_y[i] = GRID_Y1 /\ velocities_y[i] < 0

\* C11: whenever a tick may start, the grid parameters are the ones
\* _update_grid_params derives from the current range_of_view: cell_size is at
\* least range_of_view and each grid dimension is the ceiling of the world
\* extent over cell_size, at least 1.
C11_GridMatchesRangeOfView ==
    /\ cell_size >= params.range_of_view
    /\ cell_size > 0
    /\ num_cells_x = Max(1, CeilDiv(WORLD_WIDTH, cell_size))
    /\ num_cells_y = Max(1, CeilDiv(WORLD_HEIGHT, cell_size))

\* Iteration i of the kernel pass has run on an agent with no other agent
\* within range_of_view whose speed exceeds min_velocity, with slow_factor > 0.
IsolatedAndFast(i) ==
    /\ phase = "GridBuilt"
    /\ i \in DOMAIN new_vx
    /\ BruteForceNeighbors(i) = {}
    /\ SpeedSq(i) > params.min_velocity * params.min_velocity
    /\ params.slow_factor > 0

\* The square of the speed the kernel produced for agent i.
NewSpeedSq(i) == new_vx[i] * new_vx[i] + new_vy[i] * new_vy[i]

\* The kernel's velocity for agent i is a positive multiple of its old one.
SameDirection(i) ==
    /\ new_vx[i] * velocities_y[i] = new_vy[i] * velocities_x[i]
    /\ new_vx[i] * velocities_x[i] + new_vy[i] * velocities_y[i] > 0

\* C12 as stated: for an isolated agent of speed s > min_velocity and
\* slow_factor > 0 the kernel produces the speed max(s - slow_factor,
\* min_velocity), strictly below s, not below min_velocity, direction kept.
C12_IsolatedSpeedIsDecayedSpeed ==
    \A i \in Active : IsolatedAndFast(i) =>
        LET s == Sqrt(SpeedSq(i))
            decayed == Max(s - params.slow_factor, params.min_velocity)
        IN  /\ NewSpeedSq(i) = decayed * decayed
            /\ NewSpeedSq(i) < SpeedSq(i)
            /\ NewSpeedSq(i) >= params.min_velocity * params.min_velocity
            /\ SameDirection(i)

\* C12 amended: with 0 < min_velocity and 0 < max_velocity the kernel
\* produces for such an agent the speed min(max(s - slow_factor,
\* min_velocity), max_velocity), the decayed speed clamped by the velocity
\* limit: strictly below s, not below the smaller of min_velocity and
\* max_velocity, direction kept.
C12_IsolatedSpeedIsDecayedThenLimited ==
    \A i \in Active :
        (IsolatedAndFast(i) /\ params.min_velocity > 0 /\ params.max_velocity > 0) =>
        LET s == Sqrt(SpeedSq(i))
            decayed == Max(s - params.slow_factor, params.min_velocity)
            limited == Min(decayed, params.max_velocity)
            lowest == Min(params.min_velocity, params.max_velocity)
        IN  /\ NewSpeedSq(i) = limited * limited
            /\ NewSpeedSq(i) < SpeedSq(i)
            /\ NewSpeedSq(i) >= lowest * lowest
            /\ SameDirection(i)

\* Witness of C12: the kernel has slowed an isolated agent by slow_factor to a
\* speed above min_velocity and below max_velocity, and another isolated
\* agent to min_velocity.
C12_Witness ==
    \E i, j \in Active :
        /\ IsolatedAndFast(i) /\ IsolatedAndFast(j)
        /\ Sqrt(SpeedSq(i)) - params.slow_factor > params.min_velocity
        /\ Sqrt(SpeedSq(i)) - params.slow_factor < params.max_velocity
        /\ Sqrt(SpeedSq(j)) - params.slow_factor < params.min_velocity
        /\ NewSpeedSq(j) = params.min_velocity * params.min_velocity

\* Agent i lies inside the world bounds.
InWorld(i) ==
    /\ positions_x[i] >= GRID_X2 /\ positions_x[i] <= GRID_X1
    /\ positions_y[i] >= GRID_Y2 /\ positions_y[i] <= GRID_Y1

\* C13: the wrapped squared distance of two agents is the same in both
\* argument orders and, for agents inside the world bounds, at most the square
\* of half the world diagonal, (world_w/2)^2 + (world_h/2)^2.
C13_WrappedDistanceSymmetricAndBounded ==
    \A i, j \in Active :
        LET ab == wrapped_distance_sq(positions_x[i], positions_y[i],
                                      positions_x[j], positions_y[j],
                                      WORLD_WIDTH, WORLD_HEIGHT)
            ba == wrapped_distance_sq(positions_x[j], positions_y[j],
                                      positions_x[i], positions_y[i],
                                      WORLD_WIDTH, WORLD_HEIGHT)
        IN  /\ ab = ba
            /\ (InWorld(i) /\ InWorld(j)) =>
                  4 * ab <= WORLD_WIDTH * WORLD_WIDTH + WORLD_HEIGHT * WORLD_HEIGHT

\* Witness of C13: the kernel has measured two agents that lie more than
\* half the world apart on the x axis, the first one at the lower x, and has
\* found them within range_of_view of each other across the seam.
C13_Witness ==
    /\ phase = "GridBuilt" /\ DOMAIN new_vx = Active
    /\ \E i, j \in Active :
          /\ i < j
          /\ 2 * (positions_x[j] - positions_x[i]) > WORLD_WIDTH
          /\ InView(i, j)
          /\ neighbor_counts[i] > 0 /\ neighbor_counts[j] > 0

\* Two agents inside the world are exactly half the world diagonal apart.
HalfDiagonalApart ==
    \E i, j \in Active :
        /\ InWorld(i) /\ InWorld(j)
        /\ 4 * DistSq(i, j) = WORLD_WIDTH * WORLD_WIDTH + WORLD_HEIGHT * WORLD_HEIGHT

\* The order in which update() goes through its steps.
TickOrder ==
    { <<"Idle", "GridBuilt">>, <<"GridBuilt", "VelocitiesComputed">>,
      <<"VelocitiesComputed", "Perturbed">>, <<"Perturbed", "Integrated">>,
      <<"Integrated", "Idle">> }

\* C14: a tick goes through grid rebuild, kernel, perturbation and
\* integration in this order; during the kernel pass positions, velocities
\* and sizes stay as they were at the start of the tick, an iteration writes
\* only its own output slot, and whatever the order of the iterations every
\* output, and the velocities stored when the pass is over, are the ones a
\* pass in index order computes from the state at the start of the tick.
C14_KernelPassOrderIndependent ==
    [][/\ phase' # phase => <<phase, phase'>> \in TickOrder
       /\ (phase = "GridBuilt" /\ phase' = "GridBuilt") =>
             /\ UNCHANGED <<positions_x, positions_y, velocities_x,
                            velocities_y, sizes, hash>>
             /\ \A k \in DOMAIN new_vx :
                   k \in DOMAIN new_vx' /\ new_vx'[k] = new_vx[k]
                                        /\ new_vy'[k] = new_vy[k]
       /\ phase' = "GridBuilt" =>
             \A k \in DOMAIN new_vx' :
                <<new_vx'[k], new_vy'[k]>> = sequential'[k]
       /\ (phase = "GridBuilt" /\ phase' = "VelocitiesComputed") =>
             \A k \in Active :
                <<velocities_x'[k], velocities_y'[k]>> = sequential[k]]_vars

\* Witness of C14: the pass has run the iteration of agent 2 before that of
\* agent 1, the two agents see each other, and the kernel has changed the
\* velocity of agent 2.
C14_Witness ==
    /\ phase = "GridBuilt"
    /\ DOMAIN new_vx = {2}
    /\ 1 \in Active
    /\ neighbor_counts[2] > 0
    /\ InView(1, 2)
    /\ <<new_vx[2], new_vy[2]>> # <<velocities_x[2], velocities_y[2]>>

\* The agents in the run of cell c: sorted_indices[cell_starts[c]] up to, and
\* without, sorted_indices[cell_starts[c + 1]].
RunOf(c) ==
    {hash.sorted_indices[k] :
        k \in hash.cell_starts[c]..(hash.cell_starts[c + 1] - 1)}

\* C15: the arrays build_spatial_hash returns for n active agents:
\* sorted_indices holds each agent exactly once in its n slots; cell_starts
\* begins with 0, never decreases and ends with n at total_cells; the run of
\* every cell holds exactly the agents whose boid_cells entry is that cell;
\* and every boid_cells entry is a cell of the grid.
C15_HashIsCountingSort ==
    phase = "GridBuilt" =>
        /\ DOMAIN hash.sorted_indices = 0..(ActiveLen - 1)
        /\ {hash.sorted_indices[k] : k \in 0..(ActiveLen - 1)} = Active
        /\ DOMAIN hash.cell_starts = 0..total_cells
        /\ hash.cell_starts[0] = 0
        /\ hash.cell_starts[total_cells] = ActiveLen
        /\ \A c \in 0..(total_cells - 1) :
              /\ hash.cell_starts[c] <= hash.cell_starts[c + 1]
              /\ RunOf(c) = {i \in Active : hash.boid_cells[i] = c}
        /\ DOMAIN hash.boid_cells = Active
        /\ \A i \in Active : hash.boid_cells[i] \in 0..(total_cells - 1)

\* Witness of C15: the hash has been built for a grid of more than one cell
\* with two agents in one cell, that is not the first one, one of them on the
\* upper x bound.
C15_Witness ==
    /\ phase = "GridBuilt"
    /\ total_cells > 1
    /\ \E i, j \in Active :
          /\ i # j
          /\ hash.boid_cells[i] = hash.boid_cells[j]
          /\ hash.boid_cells[i] > 0
          /\ positions_x[j] = GRID_X1
          /\ hash.cell_starts[hash.boid_cells[i] + 1]
                 = hash.cell_starts[hash.boid_cells[i]] + 2

\* The arrays of the hash are the ones the kernel's scan is computed from.
HashMatchesScan ==
    phase = "GridBuilt" =>
        /\ \A c \in 0..total_cells : hash.cell_starts[c] = cell_starts(c)
        /\ \A k \in 0..(ActiveLen - 1) : hash.sorted_indices[k] = sorted_indices(k)

\* The number of times the scan of agent i has counted agent j as a neighbour.
Contributions(i, j) ==
    Cardinality({k \in 1..Len(Neighbors(i)) : Neighbors(i)[k] = j})

\* C16: once iteration i of the kernel pass has run, every agent within
\* range_of_view of i has contributed exactly once: neighbor_count is the
\* number of such agents and each of them was counted one time, whatever the
\* number of cells of the grid.
C16_NeighbourContributesOnce ==
    phase = "GridBuilt" =>
        \A i \in DOMAIN neighbor_counts :
            /\ neighbor_counts[i] = Cardinality(BruteForceNeighbors(i))
            /\ \A j \in BruteForceNeighbors(i) : Contributions(i, j) = 1

\* In a grid of one cell the scan of an agent counts its neighbour nine times.
CountedNineTimes ==
    /\ phase = "GridBuilt"
    /\ total_cells = 1
    /\ \E i \in DOMAIN neighbor_counts : \E j \in Active :
          /\ BruteForceNeighbors(i) = {j}
          /\ neighbor_counts[i] = 9

====
